---- MODULE Spec2Model ----
(***************************************************************************)
(* Batch-resumable scrape/analyse pipeline of BrewtifulData.               *)
(*                                                                         *)
(* Two variants of the pipeline live in the repository and both are        *)
(* modelled: "core" is core/scrape_and_analyze.py run() on top of          *)
(* entities/{csv_ent,beer,image_manager}.py, "legacy" is                   *)
(* scrape_and_analyze.py run_scraping_and_analysis(), the function the     *)
(* command line of run.py starts.                                          *)
(*                                                                         *)
(* Spec     : the pipeline as a process (runs, interruptions, reruns).     *)
(* SpecUnit : the ledger and page-fetcher operations called directly.      *)
(***************************************************************************)
EXTENDS Integers, Sequences, FiniteSets, TLC

\* ------------------------------------------------------------------ bounds
\* config.NUM_PAGES is 1676 and config.BATCH_SIZE is 10 in the repository;
\* the model keeps the names and shrinks the values.
NUM_PAGES == 3
BATCH_SIZE == 2
\* most item containers on one catalog page
MaxItems == 2
\* most invocations of the pipeline in one behaviour
MaxRuns == 2

\* --------------------------------------------------------------- constants
START_PAGE == 1

\* ------------------------------------------------------------------ tokens
NoneVal == "<None>"
NA == "N/A"
Unbound == "<unbound>"
NoFile == <<[nofile |-> TRUE]>>
Raise == [exc |-> TRUE]

VARIABLES
    variant,      \* "core" | "legacy" | "unit"
    pc,           \* position of the pipeline process
    runs,         \* pipeline invocations started so far
    model_name,   \* result of check_llava_model for the current run
    page_num,     \* page cursor of the while loop
    batch_start,
    batch_end,
    p,            \* page of the for loop
    beer_rows,    \* containers of the page being processed
    i,            \* index of the container being processed (1-based)
    batch_rows,   \* in-memory row buffer of the batch
    image_path,   \* local variable image_path of run() (core)
    files,        \* batch files on disk: path -> rows (header included)
    master,       \* master ledger on disk: NoFile or rows (header included)
    images,       \* image files on disk (by file name)
    fetchLog,     \* history: pages fetched by the current run, in order
    visited,      \* history: batch ranges reached by the current run
    failed,       \* history: <<page, k>>: the try block of page raised in the current
                  \* run, in the fetch (k = 0) or while container k was processed
    ev,           \* history: what the last step did
    slept,        \* history: a sleep(1) happened since the last page fetch
    ret,          \* SpecUnit: the last direct call and its result
    config_NUM_PAGES,   \* attribute NUM_PAGES of the module config
    config_BATCH_SIZE,  \* attribute BATCH_SIZE of the module config
    cmd           \* SpecCli: the command of run.py being executed

vars == <<variant, pc, runs, model_name, page_num, batch_start, batch_end, p,
          beer_rows, i, batch_rows, image_path, files, master, images,
          fetchLog, visited, failed, ev, slept, ret,
          config_NUM_PAGES, config_BATCH_SIZE, cmd>>

cli == <<config_NUM_PAGES, config_BATCH_SIZE, cmd>>
locals == <<model_name, page_num, batch_start, batch_end, p, beer_rows, i, batch_rows, image_path>>
disk == <<files, master, images>>
history == <<fetchLog, visited, failed, slept>>

Min(a, b) == IF a <= b THEN a ELSE b

SeqsUpTo(S, n) == UNION { [1..k -> S] : k \in 0..n }

\* ----------------------------------------------------------- catalog site
\* An image URL is the sequence of its '/'-separated segments; <<>> stands
\* for an absent or empty URL (both are falsy for has_image).
URL1 == <<"https:", "", "img.example", "a.png">>
NoURL == <<>>

\* An item container of a page: the rating meta tag's content (NoneVal: no
\* tag or no content attribute), the image URL, and whether the price meta
\* tag can be read (price_tag["content"] raises KeyError when it cannot).
Container(rating, image_url, price_ok) ==
    [rating |-> rating, image_url |-> image_url, price_ok |-> price_ok]

cRated == Container("4.2", URL1, TRUE)
cNoImage == Container("4.2", NoURL, TRUE)
cUnrated == Container(NoneVal, URL1, TRUE)
cBroken == Container("4.2", URL1, FALSE)

\* the pages the catalog may answer with
CatalogPages ==
    { <<>>, <<cUnrated>>, <<cRated, cUnrated>>, <<cNoImage, cRated>>,
      <<cRated, cBroken>>, <<cUnrated, cRated, cNoImage>> }

PageChoices == { s \in CatalogPages : Len(s) <= MaxItems }

\* ------------------------------------------------------------ entities
MASTER_HEADER ==
    [Name |-> <<"Name">>, Rating |-> "Rating", Image_File |-> "Image_File",
     Label_Color |-> "Label_Color", Text_Color |-> "Text_Color",
     Analysis_Error |-> "Analysis_Error"]

\* Beer.from_html: Raise, NoneVal-tagged record, or the Beer.
NoBeer == [none |-> TRUE]

from_html(beer) ==
    IF ~beer.price_ok THEN Raise
    ELSE IF beer.rating = NoneVal \/ beer.rating = "" \/ beer.rating = NA THEN NoBeer
    ELSE [rating |-> beer.rating, image_url |-> beer.image_url]

IsBeer(b) == b # Raise /\ b # NoBeer

\* has_image, were it to answer for the ImageManager object instead of its URL
has_image_always(image_url) == TRUE

\* ImageManager.has_image / Beer.has_image
has_image(image_url) == image_url # <<>>

\* image_filename, were it to take the first segment
image_filename_first(image_url) ==
    IF image_url # <<>> THEN image_url[1] ELSE NA

\* ImageManager.image_filename: final '/'-separated segment, "N/A" when no URL
image_filename(image_url) ==
    IF image_url # <<>> THEN image_url[Len(image_url)] ELSE NA

\* ImageManager.remove_image
remove_image(imgs, path) ==
    IF path # NoneVal /\ path \in imgs THEN imgs \ {path} ELSE imgs

\* the row assembled for one item; the item on page pg at position k is its Name
Row(pg, k, beer, image_file, label_color, text_color, analysis_error) ==
    [Name |-> <<pg, k>>, Rating |-> beer.rating, Image_File |-> image_file,
     Label_Color |-> label_color, Text_Color |-> text_color,
     Analysis_Error |-> analysis_error]

\* CsvManager.batch_csv_path: beers_{batch_start}_{batch_end}.csv
batch_csv_path(bs, be) == <<"beers", bs, be, "csv">>

\* is_complete, were "more than one row" written as "at least one row"
is_complete_lenient(fs, batch_csv) ==
    IF batch_csv \notin DOMAIN fs THEN FALSE
    ELSE Len(fs[batch_csv]) > 0

\* CsvManager.is_complete / batch_is_complete
is_complete(fs, batch_csv) ==
    IF batch_csv \notin DOMAIN fs THEN FALSE
    ELSE Len(fs[batch_csv]) > 1

\* what write_batch leaves in the file
write_batch_content(rows) == <<MASTER_HEADER>> \o rows

\* write_batch, were the file opened in mode "a"
write_batch_appending(fs, batch_csv, rows) ==
    [q \in DOMAIN fs \cup {batch_csv} |->
        IF q = batch_csv
        THEN (IF q \in DOMAIN fs THEN fs[q] ELSE <<>>) \o write_batch_content(rows)
        ELSE fs[q]]

\* CsvManager.write_batch: mode "w", header, rows
write_batch(fs, batch_csv, rows) ==
    [q \in DOMAIN fs \cup {batch_csv} |->
        IF q = batch_csv THEN write_batch_content(rows) ELSE fs[q]]

\* append_master, were the header written at every call
append_master_with_header(m, rows) ==
    IF m = NoFile THEN <<MASTER_HEADER>> \o rows ELSE m \o <<MASTER_HEADER>> \o rows

\* CsvManager.append_master: mode "a", header only if the file did not exist
append_master(m, rows) ==
    IF m = NoFile THEN <<MASTER_HEADER>> \o rows ELSE m \o rows

\* run_scraping_and_analysis, lines 150-152: mode "a", never a header
legacy_append_master(m, rows) ==
    IF m = NoFile THEN rows ELSE m \o rows

\* init_master_csv, without the os.path.exists test
init_master_csv_truncating(m) == <<MASTER_HEADER>>

\* CsvManager.init_master_csv
init_master_csv(m) ==
    IF m = NoFile THEN <<MASTER_HEADER>> ELSE m

NoEv == [op |-> "none"]

\* ------------------------------------------------------------------ Init
\* no command of run.py is being executed
NoCmd ==
    [name |-> "none", phase |-> "none", num_pages |-> <<>>, batch_size |-> <<>>,
     original_pages |-> 0, runs0 |-> 0]

IdleLocals ==
    /\ model_name = NoneVal
    /\ page_num = 0
    /\ batch_start = 0
    /\ batch_end = 0
    /\ p = 0
    /\ beer_rows = <<>>
    /\ i = 0
    /\ batch_rows = <<>>
    /\ image_path = Unbound

InitCommon ==
    /\ runs = 0
    /\ IdleLocals
    /\ master = NoFile
    /\ images = {}
    /\ fetchLog = <<>>
    /\ visited = <<>>
    /\ failed = {}
    /\ ev = NoEv
    /\ slept = FALSE
    /\ ret = NoEv
    /\ config_NUM_PAGES = NUM_PAGES
    /\ config_BATCH_SIZE = BATCH_SIZE
    /\ cmd = NoCmd

Init ==
    /\ variant \in {"core", "legacy"}
    /\ pc = "idle"
    /\ files = <<>>
    /\ InitCommon

ResetLocals ==
    /\ model_name' = NoneVal
    /\ page_num' = 0
    /\ batch_start' = 0
    /\ batch_end' = 0
    /\ p' = 0
    /\ beer_rows' = <<>>
    /\ i' = 0
    /\ batch_rows' = <<>>
    /\ image_path' = Unbound

\* --------------------------------------------------------------- run()
\* run() lines 45-53 / run_scraping_and_analysis lines 17-30: no model
\* available => return before anything is written.
StartNoModel ==
    /\ pc = "idle"
    /\ runs < MaxRuns
    /\ runs' = runs + 1
    /\ pc' = "idle"
    /\ ev' = [op |-> "no_model"]
    /\ fetchLog' = <<>>
    /\ visited' = <<>>
    /\ failed' = {}
    /\ slept' = FALSE
    /\ UNCHANGED <<cli, variant, locals, disk, ret>>

\* StartRun, were the master ledger created anew by every run
StartRun_reinit ==
    /\ pc = "idle"
    /\ runs < MaxRuns
    /\ runs' = runs + 1
    /\ model_name' = "llava:7b"
    /\ master' = <<MASTER_HEADER>>
    /\ page_num' = START_PAGE
    /\ pc' = "while"
    /\ ev' = [op |-> "start"]
    /\ fetchLog' = <<>>
    /\ visited' = <<>>
    /\ failed' = {}
    /\ slept' = FALSE
    /\ UNCHANGED <<cli, variant, batch_start, batch_end, p, beer_rows, i,
                   batch_rows, image_path, files, images, ret>>

\* model available: init_master_csv, page_num = START_PAGE
StartRun ==
    /\ pc = "idle"
    /\ runs < MaxRuns
    /\ runs' = runs + 1
    /\ model_name' = "llava:7b"
    /\ master' = init_master_csv(master)
    /\ page_num' = START_PAGE
    /\ pc' = "while"
    /\ ev' = [op |-> "start"]
    /\ fetchLog' = <<>>
    /\ visited' = <<>>
    /\ failed' = {}
    /\ slept' = FALSE
    /\ UNCHANGED <<cli, variant, batch_start, batch_end, p, beer_rows, i,
                   batch_rows, image_path, files, images, ret>>

\* while page_num <= NUM_PAGES fails: run() returns
RunEnd ==
    /\ pc = "while"
    /\ ~(page_num <= NUM_PAGES)
    /\ pc' = "idle"
    /\ ev' = [op |-> "end", page_num |-> page_num]
    /\ ResetLocals
    /\ UNCHANGED <<cli, variant, runs, disk, history, ret>>

\* BatchSkip, were the cursor set to batch_end
BatchSkip_stuck ==
    /\ pc = "while"
    /\ page_num <= NUM_PAGES
    /\ LET bs == page_num
           be == Min(page_num + BATCH_SIZE - 1, NUM_PAGES)
       IN /\ is_complete(files, batch_csv_path(bs, be))
          /\ batch_start' = bs
          /\ batch_end' = be
          /\ page_num' = be
          /\ visited' = Append(visited, [bs |-> bs, be |-> be, skipped |-> TRUE])
          /\ ev' = [op |-> "skip", bs |-> bs, be |-> be]
    /\ UNCHANGED <<cli, variant, pc, runs, model_name, p, beer_rows, i, batch_rows,
                   image_path, disk, fetchLog, failed, slept, ret>>

\* lines 55-61: the batch file is complete
BatchSkip ==
    /\ pc = "while"
    /\ page_num <= NUM_PAGES
    /\ LET bs == page_num
           be == Min(page_num + BATCH_SIZE - 1, NUM_PAGES)
       IN /\ is_complete(files, batch_csv_path(bs, be))
          /\ batch_start' = bs
          /\ batch_end' = be
          /\ page_num' = be + 1
          /\ visited' = Append(visited, [bs |-> bs, be |-> be, skipped |-> TRUE])
          /\ ev' = [op |-> "skip", bs |-> bs, be |-> be]
    /\ UNCHANGED <<cli, variant, pc, runs, model_name, p, beer_rows, i, batch_rows,
                   image_path, disk, fetchLog, failed, slept, ret>>

\* lines 55-64: the batch file is not complete, the batch starts
BatchBegin ==
    /\ pc = "while"
    /\ page_num <= NUM_PAGES
    /\ LET bs == page_num
           be == Min(page_num + BATCH_SIZE - 1, NUM_PAGES)
       IN /\ ~is_complete(files, batch_csv_path(bs, be))
          /\ batch_start' = bs
          /\ batch_end' = be
          /\ batch_rows' = <<>>
          /\ p' = bs
          /\ visited' = Append(visited, [bs |-> bs, be |-> be, skipped |-> FALSE])
          /\ ev' = [op |-> "begin", bs |-> bs, be |-> be]
    /\ pc' = "page"
    /\ UNCHANGED <<cli, variant, runs, model_name, page_num, beer_rows, i,
                   image_path, disk, fetchLog, failed, slept, ret>>

\* lines 66-69 (legacy 45-52): the page is fetched.  The request raises,
\* or the page has no containers, or it has some.
FetchRaises ==
    /\ pc = "page"
    /\ p <= batch_end
    /\ fetchLog' = Append(fetchLog, p)
    /\ failed' = failed \cup {<<p, 0>>}
    /\ slept' = FALSE
    /\ p' = p + 1
    /\ ev' = [op |-> "fetch_raise", page |-> p]
    /\ UNCHANGED <<cli, variant, pc, runs, model_name, page_num, batch_start, batch_end,
                   beer_rows, i, batch_rows, image_path, disk, visited, ret>>

\* FetchEmpty, were the empty page left with continue
FetchEmpty_continue ==
    /\ pc = "page"
    /\ p <= batch_end
    /\ fetchLog' = Append(fetchLog, p)
    /\ slept' = FALSE
    /\ beer_rows' = <<>>
    /\ p' = p + 1
    /\ ev' = [op |-> "fetch_empty", page |-> p]
    /\ UNCHANGED <<cli, variant, pc, runs, model_name, page_num, batch_start, batch_end,
                   i, batch_rows, image_path, disk, visited, failed, ret>>

\* if not beer_rows: break
FetchEmpty ==
    /\ pc = "page"
    /\ p <= batch_end
    /\ fetchLog' = Append(fetchLog, p)
    /\ slept' = FALSE
    /\ beer_rows' = <<>>
    /\ pc' = "write"
    /\ ev' = [op |-> "fetch_empty", page |-> p]
    /\ UNCHANGED <<cli, variant, runs, model_name, page_num, batch_start, batch_end, p,
                   i, batch_rows, image_path, disk, visited, failed, ret>>

FetchPage ==
    /\ pc = "page"
    /\ p <= batch_end
    /\ \E rows \in PageChoices \ {<<>>} :
          beer_rows' = rows
    /\ fetchLog' = Append(fetchLog, p)
    /\ slept' = FALSE
    /\ i' = 1
    /\ pc' = "item"
    /\ ev' = [op |-> "fetch", page |-> p]
    /\ UNCHANGED <<cli, variant, runs, model_name, page_num, batch_start, batch_end, p,
                   batch_rows, image_path, disk, visited, failed, ret>>

\* the for loop over the pages of the batch is exhausted
PagesDone ==
    /\ pc = "page"
    /\ p > batch_end
    /\ pc' = "write"
    /\ ev' = [op |-> "pages_done"]
    /\ UNCHANGED <<cli, variant, runs, locals, disk, history, ret>>

\* AbandonPage, were the failed page tried again
AbandonPage_retry ==
    /\ failed' = failed \cup {<<p, i>>}
    /\ p' = p
    /\ beer_rows' = <<>>
    /\ i' = 0
    /\ pc' = "page"

\* what leaving the page's try block through "except Exception: continue"
\* does: next page, no sleep
AbandonPage ==
    /\ failed' = failed \cup {<<p, i>>}
    /\ p' = p + 1
    /\ beer_rows' = <<>>
    /\ i' = 0
    /\ pc' = "page"

\* Beer.from_html raises (line 33): the exception leaves the for loop over
\* the containers and is caught at line 117
ItemRaises ==
    /\ pc = "item"
    /\ i <= Len(beer_rows)
    /\ from_html(beer_rows[i]) = Raise
    /\ AbandonPage
    /\ ev' = [op |-> "item_raise", page |-> p, idx |-> i]
    /\ UNCHANGED <<cli, variant, runs, model_name, page_num, batch_start, batch_end,
                   batch_rows, image_path, disk, fetchLog, visited, slept, ret>>

\* lines 72-75: no valid rating, the container is skipped
ItemSkipped ==
    /\ pc = "item"
    /\ i <= Len(beer_rows)
    /\ from_html(beer_rows[i]) = NoBeer
    /\ i' = i + 1
    /\ ev' = [op |-> "item_skip", page |-> p, idx |-> i]
    /\ UNCHANGED <<cli, variant, pc, runs, model_name, page_num, batch_start, batch_end, p,
                   beer_rows, batch_rows, image_path, disk, history, ret>>

\* lines 77-84, 110-115: has_image() is false, the row keeps its defaults
ItemNoImage ==
    /\ pc = "item"
    /\ i <= Len(beer_rows)
    /\ LET beer == from_html(beer_rows[i])
       IN /\ IsBeer(beer)
          /\ ~has_image(beer.image_url)
          /\ batch_rows' = Append(batch_rows, Row(p, i, beer, NA, NA, NA, ""))
    /\ i' = i + 1
    /\ ev' = [op |-> "item", page |-> p, idx |-> i, dl |-> "none", an |-> "none",
              file |-> NA]
    /\ UNCHANGED <<cli, variant, pc, runs, model_name, page_num, batch_start, batch_end, p,
                   beer_rows, image_path, disk, history, ret>>

\* str(e) of a failed download or analysis step, and the error text of an
\* analysis result that carries an 'error' field
ExcText == "exception text"
ErrText == "analysis error"

\* lines 85-86, 102-106 (legacy 95-99, 126-129): download_image raises.
\* core: the finally clause reads image_path, which run() has not assigned
\* before its first successful download; the UnboundLocalError leaves the
\* try block of the page.
ItemDownloadFails ==
    /\ pc = "item"
    /\ i <= Len(beer_rows)
    /\ LET beer == from_html(beer_rows[i])
       IN /\ IsBeer(beer)
          /\ has_image(beer.image_url)
          /\ IF variant = "core" /\ image_path = Unbound
             THEN /\ AbandonPage
                  /\ UNCHANGED <<batch_rows, images>>
             ELSE /\ batch_rows' = Append(batch_rows, Row(p, i, beer, NA, NA, NA, ExcText))
                  /\ images' = IF variant = "core" THEN remove_image(images, image_path)
                               ELSE images
                  /\ i' = i + 1
                  /\ UNCHANGED <<pc, p, beer_rows, failed>>
    /\ ev' = [op |-> "item", page |-> p, idx |-> i, dl |-> "raise", an |-> "none",
              file |-> image_filename(from_html(beer_rows[i]).image_url)]
    /\ UNCHANGED <<cli, variant, runs, model_name, page_num, batch_start, batch_end,
                   image_path, files, master, fetchLog, visited, slept, ret>>

\* the image file after the steps that follow a successful download
\*   core  : analyze_image removes it when the analysis returned; the
\*           finally clause removes it otherwise
\*   legacy: os.remove is the statement after the analysis, inside the try
ImagesAfter(v, imgs, name, an) ==
    IF v = "core"
    THEN remove_image(IF an = "raise" THEN imgs \cup {name} ELSE imgs \ {name}, name)
    ELSE IF an = "raise" THEN imgs \cup {name} ELSE imgs \ {name}

\* the row after a successful download, by what the analysis did
AnalysedRow(pg, k, beer, an) ==
    IF an = "ok" THEN Row(pg, k, beer, image_filename(beer.image_url), "gold", "black", "")
    ELSE IF an = "error" THEN Row(pg, k, beer, image_filename(beer.image_url), NA, NA, ErrText)
    ELSE Row(pg, k, beer, NA, NA, NA, ExcText)

\* lines 85-106 (legacy 95-129): the download succeeded; the analysis
\* returns colors, returns an error result, or the step raises
ItemAnalysed ==
    /\ pc = "item"
    /\ i <= Len(beer_rows)
    /\ LET beer == from_html(beer_rows[i])
       IN /\ IsBeer(beer)
          /\ has_image(beer.image_url)
          /\ \E an \in {"ok", "error", "raise"} :
                /\ batch_rows' = Append(batch_rows, AnalysedRow(p, i, beer, an))
                /\ images' = ImagesAfter(variant, images, image_filename(beer.image_url), an)
                /\ ev' = [op |-> "item", page |-> p, idx |-> i, dl |-> "ok", an |-> an,
                          file |-> image_filename(beer.image_url)]
          /\ image_path' = IF variant = "core" THEN image_filename(beer.image_url)
                           ELSE image_path
    /\ i' = i + 1
    /\ UNCHANGED <<cli, variant, pc, runs, model_name, page_num, batch_start, batch_end, p,
                   beer_rows, files, master, history, ret>>

\* line 120: the containers of the page are exhausted, sleep(1), next page
PageEnd ==
    /\ pc = "item"
    /\ i > Len(beer_rows)
    /\ slept' = TRUE
    /\ p' = p + 1
    /\ beer_rows' = <<>>
    /\ i' = 0
    /\ pc' = "page"
    /\ ev' = [op |-> "sleep", page |-> p]
    /\ UNCHANGED <<cli, variant, runs, model_name, page_num, batch_start, batch_end,
                   batch_rows, image_path, disk, fetchLog, visited, failed, ret>>

\* line 122: write_batch returns
WriteBatch ==
    /\ pc = "write"
    /\ files' = write_batch(files, batch_csv_path(batch_start, batch_end), batch_rows)
    /\ pc' = "append"
    /\ ev' = [op |-> "write_batch", bs |-> batch_start, be |-> batch_end]
    /\ UNCHANGED <<cli, variant, runs, locals, master, images, history, ret>>

\* line 122: write_batch does not return (the write raises or the process
\* dies in it): the file was truncated by open(.., "w") and holds the first
\* k of the rows that were to be written; run() is left
WriteBatchFails ==
    /\ pc = "write"
    /\ \E k \in 0..Len(batch_rows) :
          files' = [q \in DOMAIN files \cup {batch_csv_path(batch_start, batch_end)} |->
                      IF q = batch_csv_path(batch_start, batch_end)
                      THEN SubSeq(write_batch_content(batch_rows), 1, k)
                      ELSE files[q]]
    /\ pc' = "idle"
    /\ ev' = [op |-> "write_batch_fails", bs |-> batch_start, be |-> batch_end]
    /\ ResetLocals
    /\ UNCHANGED <<cli, variant, runs, master, images, history, ret>>

\* AppendMaster, were the cursor moved to the page the for loop stopped at
AppendMaster_shrinking ==
    /\ pc = "append"
    /\ master' = IF variant = "core" THEN append_master(master, batch_rows)
                 ELSE legacy_append_master(master, batch_rows)
    /\ page_num' = p + 1
    /\ pc' = "while"
    /\ ev' = [op |-> "append_master", bs |-> batch_start, be |-> batch_end,
              n |-> Len(batch_rows)]
    /\ UNCHANGED <<cli, variant, runs, model_name, batch_start, batch_end, p, beer_rows, i,
                   batch_rows, image_path, files, images, history, ret>>

\* lines 123-125: append_master returns, the cursor moves past the batch
AppendMaster ==
    /\ pc = "append"
    /\ master' = IF variant = "core" THEN append_master(master, batch_rows)
                 ELSE legacy_append_master(master, batch_rows)
    /\ page_num' = batch_end + 1
    /\ pc' = "while"
    /\ ev' = [op |-> "append_master", bs |-> batch_start, be |-> batch_end,
              n |-> Len(batch_rows)]
    /\ UNCHANGED <<cli, variant, runs, model_name, batch_start, batch_end, p, beer_rows, i,
                   batch_rows, image_path, files, images, history, ret>>

\* line 123: append_master does not return: the first k of the rows that
\* were to be appended are in the ledger; run() is left
AppendMasterFails ==
    /\ pc = "append"
    /\ LET base == IF master = NoFile THEN <<>> ELSE master
           full == IF variant = "core" THEN append_master(master, batch_rows)
                   ELSE legacy_append_master(master, batch_rows)
       IN \E k \in Len(base)..(Len(full) - 1) :
             master' = SubSeq(full, 1, k)
    /\ pc' = "idle"
    /\ ev' = [op |-> "append_master_fails", bs |-> batch_start, be |-> batch_end]
    /\ ResetLocals
    /\ UNCHANGED <<cli, variant, runs, files, images, history, ret>>

\* the process is terminated between two steps of run()
Interrupt ==
    /\ pc \in {"while", "page", "item", "write", "append"}
    /\ pc' = "idle"
    /\ ev' = [op |-> "interrupt", at |-> pc]
    /\ ResetLocals
    /\ UNCHANGED <<cli, variant, runs, disk, history, ret>>

\* the process is terminated inside init_master_csv, after open(.., "w")
\* created the file and before the header reached it
InitMasterFails ==
    /\ pc = "idle"
    /\ runs < MaxRuns
    /\ master = NoFile
    /\ master' = <<>>
    /\ runs' = runs + 1
    /\ ev' = [op |-> "init_master_fails"]
    /\ fetchLog' = <<>>
    /\ visited' = <<>>
    /\ failed' = {}
    /\ slept' = FALSE
    /\ UNCHANGED <<cli, variant, pc, locals, files, images, ret>>

Next ==
    \/ StartNoModel
    \/ StartRun
    \/ InitMasterFails
    \/ RunEnd
    \/ BatchSkip
    \/ BatchBegin
    \/ FetchRaises
    \/ FetchEmpty
    \/ FetchPage
    \/ PagesDone
    \/ ItemRaises
    \/ ItemSkipped
    \/ ItemNoImage
    \/ ItemDownloadFails
    \/ ItemAnalysed
    \/ PageEnd
    \/ WriteBatch
    \/ WriteBatchFails
    \/ AppendMaster
    \/ AppendMasterFails
    \/ Interrupt

Spec == Init /\ [][Next]_vars

\* ------------------------------------------------- the operations, called directly
\* longest row list handed to one call
MaxLen == 2
\* most rows of the master ledger
MaxMaster == 5

\* Page.get_beers: Beer.from_html of every container, in order; an
\* exception of from_html leaves the list comprehension
RECURSIVE AnyRaises(_)
AnyRaises(containers) ==
    IF containers = <<>> THEN FALSE
    ELSE from_html(Head(containers)) = Raise \/ AnyRaises(Tail(containers))

get_beers(containers) ==
    IF AnyRaises(containers) THEN <<Raise>>
    ELSE [k \in 1..Len(containers) |-> from_html(containers[k])]

Ratings == {NoneVal, "", NA, "4.2"}

UnitContainers == { Container(r, URL1, ok) : r \in Ratings, ok \in BOOLEAN }

UnitRow1 == Row(1, 1, [rating |-> "4.2"], "a.png", "gold", "black", "")
UnitRow2 == Row(1, 2, [rating |-> "3.9"], NA, NA, NA, ExcText)

RowLists == SeqsUpTo({UnitRow1, UnitRow2}, MaxLen)

UnitPaths == { batch_csv_path(1, 2), batch_csv_path(3, 3) }

\* ---- the analyzers ----
\* A response text is a sequence of whitespace-separated tokens: "Sure" is
\* prose, "kv" is the member list "label_color": "gold", "text_color":
\* "black", the fence tokens are the markdown fences, the others are
\* themselves.

\* most tokens of a response text handed to the block extraction
MaxTokens == 5
\* most tokens of a response text handed to the fallback parser
MaxWords == 3

MAX_RETRIES == 3
RETRY_DELAY == 2

\* the markdown fence that opens a json block, and the bare fence
Fence == "[fence]json"
FenceEnd == "[fence]"
\* what is left of a token of several characters that lost its last one
Cut == "~"

StructTokens == {"Sure", "{", "}", "kv", Fence, FenceEnd}
WordTokens == {"Sure", "amber", "cream", "Black", "important", "kv"}

colors ==
    << "black", "white", "red", "blue", "green", "yellow", "orange", "purple",
       "brown", "gray", "gold", "silver", "pink", "beige", "cream", "navy",
       "maroon", "olive", "teal", "cyan", "magenta", "lime", "indigo",
       "violet", "tan", "khaki", "burgundy", "crimson", "emerald",
       "turquoise", "amber", "copper", "bronze" >>

\* color in content.lower(), for the one token: the palette names that are
\* substrings of the lower-cased token
TokColors(tok) ==
    CASE tok = "amber" -> {"amber"}
      [] tok = "cream" -> {"cream"}
      [] tok = "Black" -> {"black"}
      [] tok = "important" -> {"tan"}
      [] tok = "kv" -> {"gold", "black"}
      [] OTHER -> {}

\* the palette names that are substrings of the lower-cased content
Mentioned(content) ==
    UNION { TokColors(content[k]) : k \in 1..Len(content) }

\* the palette names of a token in the order they stand in it
TokMentions(tok) ==
    IF tok = "kv" THEN <<"gold", "black">>
    ELSE IF TokColors(tok) = {} THEN <<>>
    ELSE <<CHOOSE c \in TokColors(tok) : TRUE>>

\* every mention of a palette name in the content, in text order
RECURSIVE MentionSeq(_)
MentionSeq(content) ==
    IF content = <<>> THEN <<>>
    ELSE TokMentions(Head(content)) \o MentionSeq(Tail(content))

\* create_fallback_analysis, were it to walk the mentions of the text
\* instead of the palette
create_fallback_analysis_per_mention(content) ==
    LET mentions == MentionSeq(content)
    IN  [label_color |-> IF Len(mentions) >= 1 THEN mentions[1] ELSE "unknown",
         text_color |-> IF Len(mentions) >= 2 THEN mentions[2] ELSE "unknown",
         raw_response |-> content]

create_fallback_analysis(content) ==
    LET Found(color) == color \in Mentioned(content)
        matches == SelectSeq(colors, Found)
    IN  [label_color |-> IF Len(matches) >= 1 THEN matches[1] ELSE "unknown",
         text_color |-> IF Len(matches) >= 2 THEN matches[2] ELSE "unknown",
         raw_response |-> content]

KvObject == [label_color |-> "gold", text_color |-> "black"]
EmptyObject == [k \in {} |-> ""]
JSONDecodeError == [decode_error |-> TRUE]

\* json.loads of a piece of the text
json_loads(json_str) ==
    IF json_str = <<"{", "kv", "}">> THEN KvObject
    ELSE IF json_str = <<"{", "}">> THEN EmptyObject
    ELSE JSONDecodeError

Positions(text, toks) == { k \in 1..Len(text) : text[k] \in toks }

SetMin(S) == CHOOSE x \in S : \A y \in S : x <= y
SetMax(S) == CHOOSE x \in S : \A y \in S : x >= y

\* re.search with the non-greedy brace pattern: the span from the first
\* opening brace to the first closing brace after it
re_search(full_response) ==
    LET opens == { a \in Positions(full_response, {"{"}) :
                     \E b \in Positions(full_response, {"}"}) : b > a }
    IN  IF opens = {} THEN <<>>
        ELSE LET a == SetMin(opens)
                 b == SetMin({ j \in Positions(full_response, {"}"}) : j > a })
             IN  <<SubSeq(full_response, a, b)>>

\* the part of the core analyzer after the fragments are joined
core_extract(full_response) ==
    LET match == re_search(full_response)
    IN  IF match # <<>>
        THEN IF json_loads(match[1]) # JSONDecodeError
             THEN json_loads(match[1])
             ELSE create_fallback_analysis(full_response)
        ELSE create_fallback_analysis(full_response)

\* content[json_start:-1]
DropLastChar(text) ==
    IF text = <<>> THEN <<>>
    ELSE IF text[Len(text)] \in {"{", "}"}
         THEN SubSeq(text, 1, Len(text) - 1)
         ELSE SubSeq(text, 1, Len(text) - 1) \o <<Cut>>

\* the json_str of analyze_beer_with_llava and analyze_colors_with_ollama
json_str_of(content) ==
    IF Positions(content, {Fence}) # {}
    THEN LET a == SetMin(Positions(content, {Fence}))
             ends == { j \in Positions(content, {Fence, FenceEnd}) : j > a }
         IN  IF ends # {}
             THEN SubSeq(content, a + 1, SetMin(ends) - 1)
             ELSE DropLastChar(SubSeq(content, a + 1, Len(content)))
    ELSE IF Positions(content, {"{"}) # {} /\ Positions(content, {"}"}) # {}
    THEN SubSeq(content, SetMin(Positions(content, {"{"})),
                         SetMax(Positions(content, {"}"})))
    ELSE content

\* the handling of a status-200 content in analyze_beer_with_llava of
\* llava_analysis.py; create_fallback_analysis does not raise on a string
legacy_extract(content) ==
    IF json_loads(json_str_of(content)) # JSONDecodeError
    THEN json_loads(json_str_of(content))
    ELSE create_fallback_analysis(content)

\* what the endpoint does with one request
Outcome(kind, status, text) == [kind |-> kind, status |-> status, text |-> text]
AnalyzeTexts == { <<"Sure", "{", "kv", "}">>, <<"amber", "cream">>, <<"{", "Sure", "}">> }
Outcomes ==
    { Outcome("ConnectionError", 0, <<>>), Outcome("Timeout", 0, <<>>),
      Outcome("http", 500, <<>>) }
    \cup { Outcome("http", 200, t) : t \in AnalyzeTexts }
RequestFails(o) == o.kind # "http" \/ o.status # 200

Called(result, attempts, sleeps) ==
    [result |-> result, attempts |-> attempts, sleeps |-> sleeps]

\* core/llava_analysis.py: one request; the body of an error status carries
\* no 'response' fragment
core_analyze_beer_with_llava(responses) ==
    LET r == responses[1]
    IN  IF r.kind # "http"
        THEN Called([label_color |-> NA, text_color |-> NA, error |-> r.kind], 1, <<>>)
        ELSE Called(core_extract(r.text), 1, <<>>)

RECURSIVE retry_loop(_, _, _, _)
retry_loop(impl, responses, attempt, sleeps) ==
    IF attempt >= MAX_RETRIES
    THEN Called([error |-> "Max retries exceeded"], attempt, sleeps)
    ELSE LET r == responses[attempt + 1]
             again == retry_loop(impl, responses, attempt + 1,
                                 Append(sleeps, RETRY_DELAY))
             last(msg) == Called([error |-> msg], attempt + 1, sleeps)
         IN  IF r.kind # "http"
             THEN IF attempt < MAX_RETRIES - 1 THEN again
                  ELSE last("Request error")
             ELSE IF r.status # 200
             THEN IF attempt < MAX_RETRIES - 1 THEN again
                  ELSE last("API error")
             ELSE IF impl = "legacy"
             THEN Called(legacy_extract(r.text), attempt + 1, sleeps)
             ELSE IF json_loads(json_str_of(r.text)) # JSONDecodeError
             THEN Called(json_loads(json_str_of(r.text)), attempt + 1, sleeps)
             ELSE IF attempt < MAX_RETRIES - 1 THEN again
                  ELSE last("Failed to parse Ollama response")

\* llava_analysis.py
legacy_analyze_beer_with_llava(image_exists, responses) ==
    IF ~image_exists
    THEN Called([error |-> "Image file not found"], 0, <<>>)
    ELSE retry_loop("legacy", responses, 0, <<>>)

\* ollama_analysis.py
analyze_colors_with_ollama(responses) ==
    retry_loop("ollama", responses, 0, <<>>)

ResponseSeqs == [1..MAX_RETRIES -> Outcomes]

\* ---- check_llava_model ----
\* most entries of the model list of a reply
MaxModels == 2

\* names the endpoint may list, and str.lower of each
ModelNames == {"llava:7b", "LLaVA:13b", "bakllava", "mistral"}
lower(name) == IF name = "LLaVA:13b" THEN "llava:13b" ELSE name
\* 'llava' in s
contains_llava(s) == s \in {"llava:7b", "llava:13b", "bakllava"}

\* an entry of the list 'models': with its 'name', or without that key
ModelEntries == { [name |-> n] : n \in ModelNames } \cup { [digest |-> "sha256"] }

\* what GET /api/tags does: the request raises, or answers with a status and
\* a body that is not JSON, JSON without the key 'models', or JSON with it
Reply(kind, status, json, models) ==
    [kind |-> kind, status |-> status, json |-> json, models |-> models]
Replies ==
    { Reply("ConnectionError", 0, "none", <<>>), Reply("Timeout", 0, "none", <<>>) }
    \cup { Reply("http", st, "malformed", <<>>) : st \in {200, 500} }
    \cup { Reply("http", st, "no_models_key", <<>>) : st \in {200, 500} }
    \cup { Reply("http", st, "models", ms) :
              st \in {200, 500}, ms \in SeqsUpTo(ModelEntries, MaxModels) }

\* check_llava_model, were the names compared as they are spelled
check_llava_model_case_sensitive(reply) ==
    IF reply.kind # "http" THEN <<FALSE, NoneVal>>
    ELSE IF reply.status # 200 THEN <<FALSE, NoneVal>>
    ELSE IF reply.json = "malformed" THEN <<FALSE, NoneVal>>
    ELSE IF \E k \in 1..Len(reply.models) : "name" \notin DOMAIN reply.models[k]
    THEN <<FALSE, NoneVal>>
    ELSE LET model_names == [k \in 1..Len(reply.models) |-> reply.models[k].name]
             is_llava(m) == contains_llava(m)
             llava_models == SelectSeq(model_names, is_llava)
         IN  IF llava_models # <<>> THEN <<TRUE, llava_models[1]>>
             ELSE <<FALSE, NoneVal>>

\* check_llava_model: every exception of the try body (the request, the
\* decoding of the body, m['name']) gives (False, None)
check_llava_model(reply) ==
    IF reply.kind # "http" THEN <<FALSE, NoneVal>>
    ELSE IF reply.status # 200 THEN <<FALSE, NoneVal>>
    ELSE IF reply.json = "malformed" THEN <<FALSE, NoneVal>>
    ELSE IF \E k \in 1..Len(reply.models) : "name" \notin DOMAIN reply.models[k]
    THEN <<FALSE, NoneVal>>
    ELSE LET model_names == [k \in 1..Len(reply.models) |-> reply.models[k].name]
             is_llava(m) == contains_llava(lower(m))
             llava_models == SelectSeq(model_names, is_llava)
         IN  IF llava_models # <<>> THEN <<TRUE, llava_models[1]>>
             ELSE <<FALSE, NoneVal>>

\* ---- image file names ----
\* most '/'-separated segments of an image URL
MaxSegs == 3
\* a URL is the sequence of its '/'-separated segments; the empty string is
\* NoURL, and an empty segment is what stands between two slashes or after
\* a final one
Segments == {"", "img", "a.png", "a.png?v=2"}
ImageURLs == { u \in SeqsUpTo(Segments, MaxSegs) : u # <<"">> }

\* ---- the link column ----
\* A cell is a sequence of pieces of text: the double quote, the opening
\* "=HYPERLINK(", and pieces that hold neither.

\* most pieces of a detail URL or of a cell read back
MaxUrlTokens == 3

Quote == "\""
HyperlinkOpen == "=HYPERLINK("
NACell == <<"N/A">>
CellTokens == {"N/A", "a", HyperlinkOpen, Quote}
Cells == SeqsUpTo(CellTokens, MaxUrlTokens)

\* link_formula of Beer.to_csv_row and of run()
link_formula(beer_url) ==
    IF beer_url # NACell
    THEN <<HyperlinkOpen, Quote>> \o beer_url
         \o <<Quote, ", ", Quote, "Beer Page", Quote, ")">>
    ELSE NACell

\* cell.split('"')
RECURSIVE split_quote(_)
split_quote(cell) ==
    IF Positions(cell, {Quote}) = {} THEN <<cell>>
    ELSE LET q == SetMin(Positions(cell, {Quote}))
         IN  <<SubSeq(cell, 1, q - 1)>> \o split_quote(SubSeq(cell, q + 1, Len(cell)))

\* extract_url, were the last part taken
extract_url_last(cell) ==
    IF cell # <<>> /\ cell[1] = HyperlinkOpen
    THEN LET parts == split_quote(cell)
         IN  IF Len(parts) > 1 THEN parts[Len(parts)] ELSE cell
    ELSE cell

\* extract_url of load_beer_data, on a string cell; parts[1] of Python is
\* the second part
extract_url(cell) ==
    IF cell # <<>> /\ cell[1] = HyperlinkOpen
    THEN LET parts == split_quote(cell)
         IN  IF Len(parts) > 1 THEN parts[2] ELSE cell
    ELSE cell

\* pc names the component under test: the batch files, the master ledger,
\* the page fetcher, an analyzer, the block extraction or the fallback parser
\* (the last three are functions of their arguments alone: one call each)
InitUnit ==
    /\ variant = "unit"
    /\ pc \in {"unit_batch", "unit_master", "unit_page",
              "unit_analyze", "unit_extract", "unit_fallback", "unit_check",
              "unit_filename", "unit_link"}
    /\ files \in { <<>>, [q \in {batch_csv_path(1, 2)} |-> <<>>] }
    /\ InitCommon

FileOrNoFile(fs, path) == IF path \in DOMAIN fs THEN fs[path] ELSE NoFile

UIsComplete ==
    /\ pc = "unit_batch"
    /\ \E path \in UnitPaths :
          ret' = [op |-> "is_complete", path |-> path, result |-> is_complete(files, path)]
    /\ UNCHANGED <<cli, variant, pc, runs, locals, disk, history, ev>>

UWriteBatch ==
    /\ pc = "unit_batch"
    /\ \E path \in UnitPaths, rows \in RowLists :
          /\ files' = write_batch(files, path, rows)
          /\ ret' = [op |-> "write_batch", path |-> path, rows |-> rows,
                     prev |-> FileOrNoFile(files, path)]
    /\ UNCHANGED <<cli, variant, pc, runs, locals, master, images, history, ev>>

UInitMaster ==
    /\ pc = "unit_master"
    /\ master' = init_master_csv(master)
    /\ ret' = [op |-> "init_master_csv", prev |-> master]
    /\ UNCHANGED <<cli, variant, pc, runs, locals, files, images, history, ev>>

UAppendMaster ==
    /\ pc = "unit_master"
    /\ \E rows \in RowLists :
          /\ Len(append_master(master, rows)) <= MaxMaster
          /\ master' = append_master(master, rows)
          /\ ret' = [op |-> "append_master", rows |-> rows, prev |-> master]
    /\ UNCHANGED <<cli, variant, pc, runs, locals, files, images, history, ev>>

\* the append of run_scraping_and_analysis (lines 150-152); every append of
\* that function comes after its lines 25-28, so the ledger exists
ULegacyAppend ==
    /\ pc = "unit_master"
    /\ master # NoFile
    /\ \E rows \in RowLists :
          /\ Len(legacy_append_master(master, rows)) <= MaxMaster
          /\ master' = legacy_append_master(master, rows)
          /\ ret' = [op |-> "legacy_append", rows |-> rows, prev |-> master]
    /\ UNCHANGED <<cli, variant, pc, runs, locals, files, images, history, ev>>

UGetBeers ==
    /\ pc = "unit_page"
    /\ \E containers \in SeqsUpTo(UnitContainers, MaxLen) :
          ret' = [op |-> "get_beers", containers |-> containers,
                  result |-> get_beers(containers)]
    /\ UNCHANGED <<cli, variant, pc, runs, locals, disk, history, ev>>

UAnalyzeCore ==
    /\ pc = "unit_analyze"
    /\ ret = NoEv
    /\ \E responses \in ResponseSeqs :
          ret' = [op |-> "analyze", impl |-> "core", responses |-> responses,
                  call |-> core_analyze_beer_with_llava(responses)]
    /\ UNCHANGED <<cli, variant, pc, runs, locals, disk, history, ev>>

UAnalyzeLegacy ==
    /\ pc = "unit_analyze"
    /\ ret = NoEv
    /\ \E responses \in ResponseSeqs, image_exists \in BOOLEAN :
          ret' = [op |-> "analyze", impl |-> "legacy", responses |-> responses,
                  call |-> legacy_analyze_beer_with_llava(image_exists, responses)]
    /\ UNCHANGED <<cli, variant, pc, runs, locals, disk, history, ev>>

UAnalyzeOllama ==
    /\ pc = "unit_analyze"
    /\ ret = NoEv
    /\ \E responses \in ResponseSeqs :
          ret' = [op |-> "analyze", impl |-> "ollama", responses |-> responses,
                  call |-> analyze_colors_with_ollama(responses)]
    /\ UNCHANGED <<cli, variant, pc, runs, locals, disk, history, ev>>

UExtractCore ==
    /\ pc = "unit_extract"
    /\ ret = NoEv
    /\ \E text \in SeqsUpTo(StructTokens, MaxTokens) :
          ret' = [op |-> "extract", impl |-> "core", text |-> text,
                  result |-> core_extract(text)]
    /\ UNCHANGED <<cli, variant, pc, runs, locals, disk, history, ev>>

UExtractLegacy ==
    /\ pc = "unit_extract"
    /\ ret = NoEv
    /\ \E text \in SeqsUpTo(StructTokens, MaxTokens) :
          ret' = [op |-> "extract", impl |-> "legacy", text |-> text,
                  result |-> legacy_extract(text)]
    /\ UNCHANGED <<cli, variant, pc, runs, locals, disk, history, ev>>

UFallback ==
    /\ pc = "unit_fallback"
    /\ ret = NoEv
    /\ \E content \in SeqsUpTo(WordTokens, MaxWords) :
          ret' = [op |-> "fallback", content |-> content,
                  result |-> create_fallback_analysis(content)]
    /\ UNCHANGED <<cli, variant, pc, runs, locals, disk, history, ev>>

\* run.py check: exit code 0 with the model found, 1 without
UCheck ==
    /\ pc = "unit_check"
    /\ ret = NoEv
    /\ \E reply \in Replies :
          LET has_llava == check_llava_model(reply)[1]
              model == check_llava_model(reply)[2]
          IN  ret' = [op |-> "check", reply |-> reply, reported |-> model,
                      exit_code |-> IF has_llava THEN 0 ELSE 1]
    /\ UNCHANGED <<cli, variant, pc, runs, locals, disk, history, ev>>

\* run() up to page_num = START_PAGE: return if not has_llava, else
\* init_master_csv
URunStart ==
    /\ pc = "unit_check"
    /\ ret = NoEv
    /\ \E reply \in Replies :
          LET has_llava == check_llava_model(reply)[1]
          IN  /\ master' = IF has_llava THEN init_master_csv(master) ELSE master
              /\ ret' = [op |-> "run_start", reply |-> reply,
                         returned |-> ~has_llava,
                         files |-> files, master |-> master]
    /\ UNCHANGED <<cli, variant, pc, runs, locals, files, images, history, ev>>

\* image_filename of two URLs, the first one asked twice
UImageFilename ==
    /\ pc = "unit_filename"
    /\ ret = NoEv
    /\ \E url1 \in ImageURLs, url2 \in ImageURLs :
          ret' = [op |-> "image_filename", url1 |-> url1, url2 |-> url2,
                  name1 |-> image_filename(url1), again1 |-> image_filename(url1),
                  name2 |-> image_filename(url2)]
    /\ UNCHANGED <<cli, variant, pc, runs, locals, disk, history, ev>>

\* the link cell assembled for a detail URL, and extract_url of it
ULinkRoundTrip ==
    /\ pc = "unit_link"
    /\ ret = NoEv
    /\ \E beer_url \in Cells :
          ret' = [op |-> "link", url |-> beer_url, cell |-> link_formula(beer_url),
                  extracted |-> extract_url(link_formula(beer_url))]
    /\ UNCHANGED <<cli, variant, pc, runs, locals, disk, history, ev>>

\* extract_url of a cell as read back
UExtractUrl ==
    /\ pc = "unit_link"
    /\ ret = NoEv
    /\ \E cell \in Cells :
          ret' = [op |-> "extract_url", cell |-> cell, result |-> extract_url(cell)]
    /\ UNCHANGED <<cli, variant, pc, runs, locals, disk, history, ev>>

NextUnit ==
    \/ UIsComplete
    \/ UWriteBatch
    \/ UInitMaster
    \/ UAppendMaster
    \/ ULegacyAppend
    \/ UGetBeers
    \/ UAnalyzeCore
    \/ UAnalyzeLegacy
    \/ UAnalyzeOllama
    \/ UExtractCore
    \/ UExtractLegacy
    \/ UFallback
    \/ UCheck
    \/ URunStart
    \/ UImageFilename
    \/ ULinkRoundTrip
    \/ UExtractUrl

SpecUnit == InitUnit /\ [][NextUnit]_vars

\* ---- the commands of run.py ----
\* run.py imports run_scraping_and_analysis from scrape_and_analyze.py, whose
\* line 7 is "from config import ..., NUM_PAGES, ..., BATCH_SIZE, ...": the
\* names NUM_PAGES and BATCH_SIZE the run reads are bound at import to the
\* values of config.py, and an assignment to config.NUM_PAGES made later
\* rebinds the attribute of the module config only.

\* largest --num-pages and --batch-size given on the command line
MaxCliPages == 2
MaxCliBatch == 2

\* an Optional[int] option: <<>> is None, <<n>> is n
CliOptions(max) == {<<>>} \cup { <<n>> : n \in 1..max }

\* the working directory is empty or holds the first batch file of an
\* earlier run
InitCli ==
    /\ variant = "legacy"
    /\ pc = "idle"
    /\ files \in { <<>>,
                   [q \in {batch_csv_path(1, 2)} |-> <<MASTER_HEADER, UnitRow1>>] }
    /\ InitCommon

\* pipeline, up to its call of run_scraping_and_analysis
pipeline ==
    /\ pc = "idle"
    /\ cmd = NoCmd
    /\ \E num_pages \in CliOptions(MaxCliPages), batch_size \in CliOptions(MaxCliBatch) :
          /\ config_NUM_PAGES' =
                IF num_pages # <<>> THEN num_pages[1] ELSE config_NUM_PAGES
          /\ config_BATCH_SIZE' =
                IF batch_size # <<>> THEN batch_size[1] ELSE config_BATCH_SIZE
          /\ cmd' = [name |-> "pipeline", phase |-> "called",
                     num_pages |-> num_pages, batch_size |-> batch_size,
                     original_pages |-> config_NUM_PAGES, runs0 |-> runs]
    /\ UNCHANGED <<variant, pc, runs, locals, disk, history, ev, ret>>

\* head, up to its call of run_scraping_and_analysis
head ==
    /\ pc = "idle"
    /\ cmd = NoCmd
    /\ config_NUM_PAGES' = 1
    /\ cmd' = [name |-> "head", phase |-> "called",
               num_pages |-> <<>>, batch_size |-> <<>>,
               original_pages |-> config_NUM_PAGES, runs0 |-> runs]
    /\ UNCHANGED <<config_BATCH_SIZE, variant, pc, runs, locals, disk, history, ev, ret>>

\* the command is at its call of run_scraping_and_analysis
CmdCalls == cmd.phase = "called" /\ runs = cmd.runs0
\* run_scraping_and_analysis has returned or raised
CmdRunOver == cmd.phase = "called" /\ runs > cmd.runs0 /\ pc = "idle"

CalledStartNoModel == CmdCalls /\ StartNoModel
CalledStartRun == CmdCalls /\ StartRun
CalledInitMasterFails == CmdCalls /\ InitMasterFails

\* pipeline ends with the run
pipeline_returns ==
    /\ cmd.name = "pipeline"
    /\ CmdRunOver
    /\ cmd' = [cmd EXCEPT !.phase = "returned"]
    /\ UNCHANGED <<config_NUM_PAGES, config_BATCH_SIZE, variant, pc, runs,
                   locals, disk, history, ev, ret>>

\* finally: config.NUM_PAGES = original_pages
head_finally ==
    /\ cmd.name = "head"
    /\ CmdRunOver
    /\ config_NUM_PAGES' = cmd.original_pages
    /\ cmd' = [cmd EXCEPT !.phase = "returned"]
    /\ UNCHANGED <<config_BATCH_SIZE, variant, pc, runs, locals, disk, history, ev, ret>>

NextCli ==
    \/ pipeline
    \/ head
    \/ CalledStartNoModel
    \/ CalledStartRun
    \/ CalledInitMasterFails
    \/ pipeline_returns
    \/ head_finally
    \/ RunEnd
    \/ BatchSkip
    \/ BatchBegin
    \/ FetchRaises
    \/ FetchEmpty
    \/ FetchPage
    \/ PagesDone
    \/ ItemRaises
    \/ ItemSkipped
    \/ ItemNoImage
    \/ ItemDownloadFails
    \/ ItemAnalysed
    \/ PageEnd
    \/ WriteBatch
    \/ WriteBatchFails
    \/ AppendMaster
    \/ AppendMasterFails
    \/ Interrupt

SpecCli == InitCli /\ [][NextCli]_vars

\* ---- the batch loop of run() under any configuration ----
\* Every call inside an iteration returns, so an iteration is one step: the
\* range is skipped (lines 59-61) or processed, written and appended (lines
\* 63-125). cmd holds the configuration the loop reads.

\* largest NUM_PAGES and BATCH_SIZE of a configuration
MaxLoopPages == 4
MaxLoopBatch == 3

LoopConfigs ==
    { [name |-> "run", START_PAGE |-> s, NUM_PAGES |-> n, BATCH_SIZE |-> b] :
        s \in 0..(MaxLoopPages + 2), n \in 0..MaxLoopPages, b \in 1..MaxLoopBatch }

\* page_num = START_PAGE
InitLoop ==
    /\ variant = "loop"
    /\ pc = "loop_while"
    /\ cmd \in LoopConfigs
    /\ page_num = cmd.START_PAGE
    /\ runs = 1
    /\ model_name = "llava:7b"
    /\ batch_start = 0
    /\ batch_end = 0
    /\ p = 0
    /\ beer_rows = <<>>
    /\ i = 0
    /\ batch_rows = <<>>
    /\ image_path = Unbound
    /\ files = <<>>
    /\ master = <<MASTER_HEADER>>
    /\ images = {}
    /\ fetchLog = <<>>
    /\ visited = <<>>
    /\ failed = {}
    /\ ev = NoEv
    /\ slept = FALSE
    /\ ret = NoEv
    /\ config_NUM_PAGES = cmd.NUM_PAGES
    /\ config_BATCH_SIZE = cmd.BATCH_SIZE

\* lines 55-56 and the cursor's assignment page_num = batch_end + step, by
\* what the iteration did
LoopStep(skipped, step) ==
    /\ pc = "loop_while"
    /\ page_num <= cmd.NUM_PAGES
    /\ LET bs == page_num
           be == Min(page_num + cmd.BATCH_SIZE - 1, cmd.NUM_PAGES)
       IN /\ batch_start' = bs
          /\ batch_end' = be
          /\ visited' = Append(visited, [bs |-> bs, be |-> be, skipped |-> skipped])
          /\ page_num' = be + step
          /\ ev' = [op |-> IF skipped THEN "skip" ELSE "append_master",
                    bs |-> bs, be |-> be]
    /\ UNCHANGED <<cli, variant, pc, runs, model_name, p, beer_rows, i, batch_rows,
                   image_path, disk, fetchLog, failed, slept, ret>>

\* lines 59-61: page_num = batch_end + 1; continue
LoopSkip == LoopStep(TRUE, 1)

\* LoopProcess, were the cursor set to batch_end
LoopProcess_stuck == LoopStep(FALSE, 0)

\* lines 63-125: the batch is processed; page_num = batch_end + 1
LoopProcess == LoopStep(FALSE, 1)

\* while page_num <= NUM_PAGES fails
LoopExit ==
    /\ pc = "loop_while"
    /\ ~(page_num <= cmd.NUM_PAGES)
    /\ pc' = "loop_done"
    /\ ev' = [op |-> "end", page_num |-> page_num]
    /\ UNCHANGED <<cli, variant, runs, locals, disk, history, ret>>

NextLoop ==
    \/ LoopSkip
    \/ LoopProcess
    \/ LoopExit

\* the loop is one sequential process: it takes its next step
SpecLoop == InitLoop /\ [][NextLoop]_vars /\ WF_vars(NextLoop)



\* ===================================================================== claims

\* the range the while loop is about to handle
NextEnd == Min(page_num + BATCH_SIZE - 1, NUM_PAGES)

InSkippedRange(pg) ==
    \E j \in 1..Len(visited) :
        visited[j].skipped /\ visited[j].bs <= pg /\ pg <= visited[j].be

\* C1: when run() reaches a range whose batch file is complete, the step it
\* takes sets the cursor to batch_end + 1 and leaves the batch files, the
\* master ledger, the image directory, the fetch history and the row buffer
\* as they were; no page of a skipped range is fetched by the run and no
\* row of such a page is buffered.
C1_CompleteBatchSkipped ==
    /\ [][ ( /\ pc = "while"
             /\ page_num <= NUM_PAGES
             /\ is_complete(files, batch_csv_path(page_num, NextEnd))
             /\ pc' # "idle" )
           => ( /\ page_num' = NextEnd + 1
                /\ UNCHANGED <<pc, files, master, images, fetchLog, batch_rows>> ) ]_vars
    /\ [](\A k \in 1..Len(fetchLog) : ~InSkippedRange(fetchLog[k]))
    /\ [](\A k \in 1..Len(batch_rows) : ~InSkippedRange(batch_rows[k].Name[1]))

C1_Witness ==
    /\ ev.op = "skip"
    /\ page_num = batch_end + 1
    /\ Len(files[batch_csv_path(batch_start, batch_end)]) > 1

\* C2: is_complete is FALSE for a file that does not exist, FALSE for a file
\* of zero rows or of the header row only, TRUE for the header plus at
\* least one data row: TRUE iff the file exists and has more than one row.
C2_IsComplete ==
    ret.op = "is_complete" =>
        LET f == FileOrNoFile(files, ret.path)
        IN /\ (f = NoFile => ret.result = FALSE)
           /\ (f = <<>> => ret.result = FALSE)
           /\ (f = <<MASTER_HEADER>> => ret.result = FALSE)
           /\ (f # NoFile /\ Len(f) >= 2 => ret.result = TRUE)

C2_Witness ==
    /\ ret.op = "is_complete"
    /\ ret.result = TRUE
    /\ files[ret.path][1] = MASTER_HEADER
    /\ Len(files[ret.path]) = 2

\* C3: once a run has ended, every record of every complete batch file is
\* in the master ledger exactly once, and every data row of the master
\* ledger is a record of some batch file.
Occurrences(seq, x) == Cardinality({k \in 1..Len(seq) : seq[k] = x})

MasterRows == IF master = NoFile THEN <<>> ELSE master

C3_MasterIsUnionOfBatches ==
    ev.op = "end" =>
        /\ \A path \in DOMAIN files :
              is_complete(files, path) =>
                 \A k \in 2..Len(files[path]) :
                    Occurrences(MasterRows, files[path][k]) = 1
        /\ \A k \in 1..Len(MasterRows) :
              MasterRows[k] # MASTER_HEADER =>
                 \E path \in DOMAIN files : Occurrences(files[path], MasterRows[k]) = 1

\* C4: the ranges the run reaches start at START_PAGE, each ends at
\* min(batch_start + BATCH_SIZE - 1, NUM_PAGES), each starts one past the end
\* of the one before, and a run that ends has reached NUM_PAGES.
C4_BatchRanges ==
    /\ visited # <<>> => visited[1].bs = START_PAGE
    /\ \A j \in 1..Len(visited) :
          visited[j].be = Min(visited[j].bs + BATCH_SIZE - 1, NUM_PAGES)
    /\ \A j \in 1..(Len(visited) - 1) : visited[j + 1].bs = visited[j].be + 1
    /\ (ev.op = "end" /\ START_PAGE <= NUM_PAGES) =>
          /\ visited # <<>>
          /\ visited[Len(visited)].be = NUM_PAGES

C4_Witness ==
    /\ ev.op = "end"
    /\ failed # {}
    /\ \E k \in 1..Len(fetchLog) : fetchLog[k] < NUM_PAGES /\ <<fetchLog[k], 0>> \notin failed
    /\ visited[Len(visited)].be = NUM_PAGES

\* C5: after write_batch(path, rows) the file holds the header followed by
\* rows and nothing else, whatever it held before.
C5_WriteBatchOverwrites ==
    ret.op = "write_batch" => files[ret.path] = <<MASTER_HEADER>> \o ret.rows

C5_Witness ==
    /\ ret.op = "write_batch"
    /\ ret.prev # NoFile
    /\ Len(ret.prev) > 1
    /\ ret.rows # <<>>
    /\ ret.prev # <<MASTER_HEADER>> \o ret.rows

\* C6: under any sequence of init_master_csv and append_master calls that
\* starts without a master file, the ledger, once it exists, has the header
\* as its first row and nowhere else, and the number of its data rows never
\* decreases.
DataRowCount(m) ==
    IF m = NoFile THEN 0
    ELSE Cardinality({k \in 1..Len(m) : m[k] # MASTER_HEADER})

C6_MasterHeaderOnce ==
    /\ [](master # NoFile =>
            /\ Len(master) >= 1
            /\ master[1] = MASTER_HEADER
            /\ \A k \in 2..Len(master) : master[k] # MASTER_HEADER)
    /\ [][DataRowCount(master') >= DataRowCount(master)]_vars

C6_Witness ==
    /\ ret.op = "init_master_csv"
    /\ ret.prev # NoFile
    /\ Len(master) >= 3
    /\ master[1] = MASTER_HEADER

\* C7: the list the page fetcher returns has one entry per validly rated
\* container and none for any other container, and no buffered row comes
\* from a container without a valid rating.
ValidRating(r) == r # NoneVal /\ r # "" /\ r # NA

C7_OnlyRatedItems ==
    /\ (ret.op = "get_beers" /\ ret.result # <<Raise>>) =>
          /\ \A k \in 1..Len(ret.result) :
                IsBeer(ret.result[k]) /\ ValidRating(ret.result[k].rating)
          /\ Len(ret.result) =
                Cardinality({k \in 1..Len(ret.containers) :
                                ValidRating(ret.containers[k].rating)})
    /\ \A k \in 1..Len(batch_rows) : ValidRating(batch_rows[k].Rating)

\* C8: the step that handles a container with a valid rating and a
\* non-empty image URL appends exactly one row, the row of that container,
\* to the batch buffer, whatever the download and the analysis do.
C8_RecordNeverDropped ==
    [][ ( /\ pc = "item"
          /\ i <= Len(beer_rows)
          /\ IsBeer(from_html(beer_rows[i]))
          /\ has_image(from_html(beer_rows[i]).image_url)
          /\ pc' # "idle" )
        => ( /\ Len(batch_rows') = Len(batch_rows) + 1
             /\ batch_rows'[Len(batch_rows')].Name = <<p, i>>
             /\ SubSeq(batch_rows', 1, Len(batch_rows)) = batch_rows ) ]_vars

FailedPages == { f[1] : f \in failed }

NoDuplicates(seq) == \A a, b \in 1..Len(seq) : a # b => seq[a] # seq[b]

\* the step in which the try block of page p raises goes on with page p + 1
AbandonedStep ==
    (pc # "idle" /\ failed' # failed) =>
        /\ p' = p + 1
        /\ pc' = "page"
        /\ fetchLog' # <<>>
        /\ fetchLog'[Len(fetchLog')] = p

\* C9: if fetching or processing page p raises, no row of page p is in the
\* batch buffer, the loop goes on with page p + 1, and no page is fetched
\* twice in a run.
C9_FailedPageLeavesNoRecord ==
    /\ [](\A k \in 1..Len(batch_rows) : batch_rows[k].Name[1] \notin FailedPages)
    /\ [](NoDuplicates(fetchLog))
    /\ [][AbandonedStep]_vars

\* C9, amended: if the fetch of page p raises, no row of page p is in the
\* batch buffer; if the processing raises at container k of page p, the rows
\* of the containers before k stay in the buffer and none of container k or
\* a later one is added; the loop goes on with page p + 1, and no page is
\* fetched twice in a run.
C9_FailedPageKeepsEarlierRecords ==
    /\ [](\A f \in failed : \A k \in 1..Len(batch_rows) :
             batch_rows[k].Name[1] = f[1] => batch_rows[k].Name[2] < f[2])
    /\ [](NoDuplicates(fetchLog))
    /\ [][AbandonedStep /\ ((pc # "idle" /\ failed' # failed) => batch_rows' = batch_rows)]_vars

C9_Witness ==
    /\ pc = "page"
    /\ \E f \in failed :
          /\ f[2] = 2
          /\ p = f[1] + 1
          /\ \E k \in 1..Len(batch_rows) : batch_rows[k].Name = <<f[1], 1>>

\* C10: when the step that handled an item has downloaded the item's image,
\* the image file does not exist after the step, whether the analysis
\* returned colors, returned an error result or raised.
C10_ImageRemoved ==
    (ev.op = "item" /\ ev.dl = "ok") => ev.file \notin images

\* C15: the step in which the fetch of page p returns no container leaves
\* the for loop over the pages of the batch; from there the run fetches
\* nothing until the buffered rows are in the batch file and appended to the
\* master ledger and the cursor is at batch_end + 1.
C15_EmptyPageEndsBatch ==
    /\ [][ (pc = "page" /\ ev'.op = "fetch_empty") =>
              ( /\ pc' = "write"
                /\ fetchLog' = Append(fetchLog, p)
                /\ UNCHANGED <<p, batch_rows, files, master>> ) ]_vars
    /\ [][ (pc = "write" /\ pc' # "idle") =>
              ( /\ pc' = "append"
                /\ files'[batch_csv_path(batch_start, batch_end)]
                      = <<MASTER_HEADER>> \o batch_rows
                /\ UNCHANGED <<fetchLog, batch_rows, batch_end>> ) ]_vars
    /\ [][ (pc = "append" /\ pc' # "idle") =>
              ( /\ pc' = "while"
                /\ page_num' = batch_end + 1
                /\ Len(master') >= Len(batch_rows)
                /\ SubSeq(master', Len(master') - Len(batch_rows) + 1, Len(master'))
                      = batch_rows
                /\ UNCHANGED fetchLog ) ]_vars

C15_Witness ==
    /\ ev.op = "append_master"
    /\ ev.n > 0
    /\ batch_start < p
    /\ p <= batch_end
    /\ fetchLog[Len(fetchLog)] = p
    /\ <<p, 0>> \notin failed
    /\ page_num = batch_end + 1

\* C16: after a write_batch that did not return, the batch file of the range
\* is not complete.
C16_FailedWriteLeavesIncomplete ==
    ev.op = "write_batch_fails" =>
        ~is_complete(files, batch_csv_path(ev.bs, ev.be))

\* C17: the step that handles a validly rated container without an image
\* URL issues no download and no analysis, leaves the image directory
\* alone, and appends the container's row with image file, label color and
\* text color "N/A" and an empty analysis error.
C17_NoImageNoDownload ==
    [][ ( /\ pc = "item"
          /\ i <= Len(beer_rows)
          /\ beer_rows[i].price_ok
          /\ ValidRating(beer_rows[i].rating)
          /\ beer_rows[i].image_url = NoURL
          /\ pc' # "idle" )
        => ( /\ batch_rows' = Append(batch_rows,
                   [Name |-> <<p, i>>, Rating |-> beer_rows[i].rating,
                    Image_File |-> NA, Label_Color |-> NA, Text_Color |-> NA,
                    Analysis_Error |-> ""])
             /\ ev'.op = "item"
             /\ ev'.dl = "none"
             /\ ev'.an = "none"
             /\ UNCHANGED <<images, image_path>> ) ]_vars

C17_Witness ==
    /\ ev.op = "item"
    /\ ev.dl = "none"
    /\ batch_rows # <<>>
    /\ batch_rows[Len(batch_rows)].Name = <<ev.page, ev.idx>>
    /\ batch_rows[Len(batch_rows)].Image_File = NA

\* C18: every page fetch of a run other than its first comes after a
\* sleep(1) that followed the fetch before it.
C18_SleepBetweenFetches ==
    [][ (Len(fetchLog') = Len(fetchLog) + 1 /\ fetchLog # <<>>) => slept ]_vars

\* C11: an analyze call makes at most MAX_RETRIES requests, pauses
\* RETRY_DELAY between consecutive requests, makes a further request after
\* each request-level failure while fewer than MAX_RETRIES were made, and
\* when every request failed its result carries an 'error' field.
C11_AnalyzeRetries ==
    ret.op = "analyze" =>
        LET n == ret.call.attempts
        IN  /\ n <= MAX_RETRIES
            /\ ret.call.sleeps = [k \in 1..(n - 1) |-> RETRY_DELAY]
            /\ \A k \in 1..n :
                  (k < MAX_RETRIES /\ RequestFails(ret.responses[k])) => n > k
            /\ (\A k \in 1..MAX_RETRIES : RequestFails(ret.responses[k]))
                  => "error" \in DOMAIN ret.call.result

\* the brace spans of a text that decode, as <<first, last>> positions
WellFormedBlocks(text) ==
    { ab \in (1..Len(text)) \X (1..Len(text)) :
        /\ ab[1] <= ab[2]
        /\ json_loads(SubSeq(text, ab[1], ab[2])) # JSONDecodeError }

FirstBlock(text) ==
    CHOOSE ab \in WellFormedBlocks(text) :
        \A cd \in WellFormedBlocks(text) : ab[1] <= cd[1]

\* C12: when the response text holds a well-formed JSON block, the
\* extraction returns exactly the object decoded from the first such block,
\* whatever stands before and after it.
C12_FirstJsonBlock ==
    (ret.op = "extract" /\ WellFormedBlocks(ret.text) # {}) =>
        ret.result = json_loads(SubSeq(ret.text, FirstBlock(ret.text)[1],
                                                 FirstBlock(ret.text)[2]))

\* the distinct palette names of a content in the order of their first
\* mention
RECURSIVE Distinct(_, _)
Distinct(seq, seen) ==
    IF seq = <<>> THEN <<>>
    ELSE IF Head(seq) \in seen THEN Distinct(Tail(seq), seen)
    ELSE <<Head(seq)>> \o Distinct(Tail(seq), seen \cup {Head(seq)})

\* C13: the fallback parser gives the palette name mentioned first in the
\* response text as label color and the second distinct one mentioned as
\* text color.
C13_FallbackFirstMatchInText ==
    ret.op = "fallback" =>
        LET found == Distinct(MentionSeq(ret.content), {})
        IN  /\ Len(found) >= 1 => ret.result.label_color = found[1]
            /\ Len(found) >= 2 => ret.result.text_color = found[2]

\* C14: the fallback parser answers "unknown" for both fields when the
\* content mentions no palette name, the name and "unknown" when it
\* mentions exactly one, two mentioned names otherwise, and never the same
\* palette name for both fields.
C14_FallbackUnknowns ==
    ret.op = "fallback" =>
        LET M == Mentioned(ret.content)
            r == ret.result
        IN  /\ M = {} => (r.label_color = "unknown" /\ r.text_color = "unknown")
            /\ Cardinality(M) = 1 =>
                  (r.label_color \in M /\ r.text_color = "unknown")
            /\ Cardinality(M) >= 2 =>
                  (r.label_color \in M /\ r.text_color \in M)
            /\ r.label_color = r.text_color => r.label_color = "unknown"

C14_Witness ==
    /\ ret.op = "fallback"
    /\ Len(MentionSeq(ret.content)) >= 2
    /\ Cardinality(Mentioned(ret.content)) = 1
    /\ ret.result.text_color = "unknown"

\* the batch ranges of pages 1..n in batches of width b
RECURSIVE ExpectedRanges(_, _, _)
ExpectedRanges(start, n, b) ==
    IF start > n THEN <<>>
    ELSE <<<<start, Min(start + b - 1, n)>>>>
         \o ExpectedRanges(Min(start + b - 1, n) + 1, n, b)

\* C19: when the run started by pipeline has ended, the batch ranges it
\* went through are those of pages 1..N in batches of width B, no page
\* beyond N was fetched and each of these ranges has its batch file, where
\* N and B are the values of --num-pages and --batch-size if given and the
\* values of config.py otherwise.
C19_PipelineOverrides ==
    (cmd.name = "pipeline" /\ cmd.phase = "called" /\ ev.op = "end") =>
        LET N == IF cmd.num_pages # <<>> THEN cmd.num_pages[1] ELSE NUM_PAGES
            B == IF cmd.batch_size # <<>> THEN cmd.batch_size[1] ELSE BATCH_SIZE
            ranges == ExpectedRanges(START_PAGE, N, B)
        IN  /\ [k \in 1..Len(visited) |-> <<visited[k].bs, visited[k].be>>] = ranges
            /\ \A k \in 1..Len(fetchLog) : fetchLog[k] \in 1..N
            /\ \A k \in 1..Len(ranges) :
                  batch_csv_path(ranges[k][1], ranges[k][2]) \in DOMAIN files

\* C20: the run started by head fetches page 1 only, and when head has
\* returned config.NUM_PAGES has the value it had when head was called.
C20_HeadOnePage ==
    cmd.name = "head" =>
        /\ \A k \in 1..Len(fetchLog) : fetchLog[k] = 1
        /\ cmd.phase = "returned" => config_NUM_PAGES = cmd.original_pages

\* the names of a well-formed model list that contain 'llava' in any
\* spelling of the letters
LlavaListed(reply) ==
    { k \in 1..Len(reply.models) :
        /\ "name" \in DOMAIN reply.models[k]
        /\ reply.models[k].name \in {"llava:7b", "LLaVA:13b", "bakllava"} }

WellFormedReply(reply) ==
    /\ reply.kind = "http"
    /\ reply.json \in {"no_models_key", "models"}
    /\ \A k \in 1..Len(reply.models) : "name" \in DOMAIN reply.models[k]

\* C21: check exits with 0 exactly when the reply has status 200, is well
\* formed and lists a model whose name contains 'llava' in any case, and
\* then reports the first such model; otherwise it exits with 1. run()
\* returns with the batch files and the master ledger untouched when the
\* reply makes no model available.
C21_CheckExitCode ==
    /\ ret.op = "check" =>
          LET ok == /\ WellFormedReply(ret.reply)
                    /\ ret.reply.status = 200
                    /\ LlavaListed(ret.reply) # {}
          IN  /\ ret.exit_code \in {0, 1}
              /\ ret.exit_code = 0 <=> ok
              /\ ok => ret.reported
                         = ret.reply.models[SetMin(LlavaListed(ret.reply))].name
    /\ ret.op = "run_start" =>
          LET ok == /\ WellFormedReply(ret.reply)
                    /\ ret.reply.status = 200
                    /\ LlavaListed(ret.reply) # {}
          IN  ~ok => (ret.returned /\ files = ret.files /\ master = ret.master
                      /\ fetchLog = <<>>)

C21_Witness ==
    /\ ret.op = "check"
    /\ ret.exit_code = 0
    /\ ret.reported = "LLaVA:13b"
    /\ Len(ret.reply.models) = 2
    /\ ret.reply.models[1].name = "mistral"

\* C22: the file name of a non-empty image URL is its final segment as it
\* stands, "N/A" for no URL; asking twice gives the same name, and two URLs
\* with the same final segment get the same name.
C22_ImageFilename ==
    ret.op = "image_filename" =>
        /\ ret.url1 # NoURL => ret.name1 = ret.url1[Len(ret.url1)]
        /\ ret.url1 = NoURL => ret.name1 = NA
        /\ ret.again1 = ret.name1
        /\ (/\ ret.url1 # NoURL
            /\ ret.url2 # NoURL
            /\ ret.url1[Len(ret.url1)] = ret.url2[Len(ret.url2)])
              => ret.name1 = ret.name2

C22_Witness ==
    /\ ret.op = "image_filename"
    /\ ret.url1 = <<"img", "a.png?v=2">>
    /\ ret.url2 = <<"", "a.png?v=2">>
    /\ ret.name1 = "a.png?v=2"
    /\ ret.name2 = ret.name1

\* the run was left while the batch it had begun was in progress: in the
\* for loop over its pages, at its write_batch call, or inside that call
LeftInBatch ==
    /\ visited # <<>>
    /\ ~visited[Len(visited)].skipped
    /\ \/ ev.op = "write_batch_fails"
       \/ ev.op = "interrupt" /\ ev.at \in {"page", "item", "write"}

\* C23: when a run is left while a batch is in progress, the batch file of
\* that range is not complete.
C23_NoPartialCheckpoint ==
    LeftInBatch =>
        ~is_complete(files, batch_csv_path(visited[Len(visited)].bs,
                                           visited[Len(visited)].be))

\* the last step handled an item and appended its row
RowEmitted ==
    /\ ev.op = "item"
    /\ batch_rows # <<>>
    /\ batch_rows[Len(batch_rows)].Name = <<ev.page, ev.idx>>

\* C24: the row of an item whose download raised, whose analysis raised or
\* whose analysis returned an error has "N/A" as image file, label color
\* and text color and a non-empty analysis error; a row with an empty
\* analysis error belongs to an item with none of these failures.
C24_FailureRowIsSentinel ==
    RowEmitted =>
        LET row == batch_rows[Len(batch_rows)]
            item_failed == ev.dl = "raise" \/ ev.an \in {"error", "raise"}
        IN  /\ item_failed => ( /\ row.Image_File = NA
                                /\ row.Label_Color = NA
                                /\ row.Text_Color = NA
                                /\ row.Analysis_Error # "" )
            /\ row.Analysis_Error = "" => ~item_failed

\* C25: a status-200 response without a well-formed JSON block ends the
\* analyze call at the attempt that received it, with the fallback parser's
\* result for its text.
C25_UnparseableGoesToFallback ==
    ret.op = "analyze" =>
        \A k \in 1..ret.call.attempts :
            ( /\ ret.responses[k].kind = "http"
              /\ ret.responses[k].status = 200
              /\ WellFormedBlocks(ret.responses[k].text) = {} )
            => ( /\ ret.call.attempts = k
                 /\ ret.call.result
                       = create_fallback_analysis(ret.responses[k].text) )

\* the batch range the while loop is about to take
NextRangePath ==
    batch_csv_path(page_num, Min(page_num + BATCH_SIZE - 1, NUM_PAGES))

\* C26: a batch with no buffered row is written as a header-only file and
\* leaves the master ledger as it is; a run that comes to a range whose
\* file is header-only begins the batch at its first page; and no two rows
\* of the master ledger are of the same item.
C26_EmptyBatchNeverComplete ==
    /\ [][ (pc = "write" /\ batch_rows = <<>> /\ pc' = "append") =>
              files'[batch_csv_path(batch_start, batch_end)] = <<MASTER_HEADER>> ]_vars
    /\ [][ (pc = "append" /\ batch_rows = <<>> /\ pc' # "idle") =>
              master' = master ]_vars
    /\ [][ ( /\ pc = "while"
             /\ page_num <= NUM_PAGES
             /\ NextRangePath \in DOMAIN files
             /\ files[NextRangePath] = <<MASTER_HEADER>>
             /\ pc' # "idle" )
           => ( /\ pc' = "page"
                /\ p' = page_num
                /\ batch_rows' = <<>>
                /\ UNCHANGED <<fetchLog, disk>> ) ]_vars
    /\ [](\A a, b \in 1..Len(MasterRows) :
             (a # b /\ MasterRows[a] # MASTER_HEADER /\ MasterRows[b] # MASTER_HEADER)
                => MasterRows[a].Name # MasterRows[b].Name)

C26_Witness ==
    /\ runs = 2
    /\ ev.op = "begin"
    /\ pc = "page"
    /\ batch_csv_path(ev.bs, ev.be) \in DOMAIN files
    /\ files[batch_csv_path(ev.bs, ev.be)] = <<MASTER_HEADER>>
    /\ master # NoFile

\* ceil((NUM_PAGES - START_PAGE + 1) / BATCH_SIZE), 0 when START_PAGE > NUM_PAGES
RangeCount ==
    IF cmd.START_PAGE > cmd.NUM_PAGES THEN 0
    ELSE (cmd.NUM_PAGES - cmd.START_PAGE + cmd.BATCH_SIZE) \div cmd.BATCH_SIZE

CursorIncreases ==
    [][ (pc = "loop_while" /\ pc' = "loop_while") => page_num' > page_num ]_vars

\* C27 as stated: the loop ends, the cursor increases at every iteration,
\* and at the end the loop has taken RangeCount ranges and the cursor is at
\* NUM_PAGES + 1.
C27_LoopEndsAtNumPagesPlusOne ==
    /\ <>(pc = "loop_done")
    /\ CursorIncreases
    /\ [](pc = "loop_done" =>
            (Len(visited) = RangeCount /\ page_num = cmd.NUM_PAGES + 1))

\* C27: the loop ends, the cursor increases at every iteration, and at the
\* end the loop has taken RangeCount ranges and the cursor is at
\* NUM_PAGES + 1 if a range was taken or START_PAGE = NUM_PAGES + 1, and at
\* START_PAGE otherwise.
C27_LoopTerminates ==
    /\ <>(pc = "loop_done")
    /\ CursorIncreases
    /\ [](pc = "loop_done" =>
            /\ Len(visited) = RangeCount
            /\ page_num = IF cmd.START_PAGE > cmd.NUM_PAGES THEN cmd.START_PAGE
                          ELSE cmd.NUM_PAGES + 1)

C27_Witness ==
    /\ pc = "loop_done"
    /\ Len(visited) = 2
    /\ cmd.START_PAGE = 2
    /\ cmd.BATCH_SIZE = 2
    /\ visited[2].be - visited[2].bs + 1 < cmd.BATCH_SIZE
    /\ page_num = cmd.NUM_PAGES + 1

\* the batch file of every range of the configuration is complete and the
\* master ledger exists: the disk a completed run leaves when every batch
\* of it produced a record
AllBatchesComplete ==
    /\ master # NoFile
    /\ \A k \in 1..Len(ExpectedRanges(START_PAGE, NUM_PAGES, BATCH_SIZE)) :
          is_complete(files,
                      batch_csv_path(ExpectedRanges(START_PAGE, NUM_PAGES, BATCH_SIZE)[k][1],
                                     ExpectedRanges(START_PAGE, NUM_PAGES, BATCH_SIZE)[k][2]))

\* C28: a run started on a disk where every batch is complete fetches no
\* page and leaves the batch files, the master ledger and the image
\* directory as they are, at its start and at every step until it ends.
C28_RerunIdempotent ==
    /\ [][ (pc = "idle" /\ AllBatchesComplete) =>
              (disk' = disk /\ fetchLog' = <<>>) ]_vars
    /\ [][ (pc # "idle" /\ AllBatchesComplete /\ fetchLog = <<>>) =>
              ( /\ disk' = disk
                /\ fetchLog' = <<>>
                /\ batch_rows' = <<>>
                /\ pc' \in {"while", "idle"} ) ]_vars

C28_Witness ==
    /\ runs = 2
    /\ ev.op = "end"
    /\ AllBatchesComplete
    /\ fetchLog = <<>>
    /\ Len(visited) = Len(ExpectedRanges(START_PAGE, NUM_PAGES, BATCH_SIZE))
    /\ \A k \in 1..Len(visited) : visited[k].skipped
    /\ Len(master) > Len(visited)

\* C29: in a run without fetch failures the buffer is empty when a batch
\* begins, the step that handles a validly rated container of the fetched
\* page appends exactly its row to the buffer and goes on with the next
\* container, write_batch leaves the header and the buffer in the file of
\* the range, and append_master puts the buffer at the end of the ledger.
C29_BatchFileIsItsPagesRecords ==
    /\ [][ ev'.op = "begin" => batch_rows' = <<>> ]_vars
    /\ [][ ( /\ pc = "item"
             /\ i <= Len(beer_rows)
             /\ ValidRating(beer_rows[i].rating)
             /\ \A f \in failed : f[2] # 0
             /\ pc' # "idle" )
           => ( /\ Len(batch_rows') = Len(batch_rows) + 1
                /\ SubSeq(batch_rows', 1, Len(batch_rows)) = batch_rows
                /\ batch_rows'[Len(batch_rows')].Name = <<p, i>>
                /\ i' = i + 1
                /\ pc' = "item" ) ]_vars
    /\ [][ (pc = "write" /\ pc' = "append") =>
              files'[batch_csv_path(batch_start, batch_end)]
                 = <<MASTER_HEADER>> \o batch_rows ]_vars
    /\ [][ (pc = "append" /\ pc' = "while") =>
              ( /\ Len(master') >= Len(batch_rows)
                /\ SubSeq(master', Len(master') - Len(batch_rows) + 1, Len(master'))
                      = batch_rows ) ]_vars

\* C30: for a detail URL other than "N/A" without a double quote the cell
\* is =HYPERLINK("url", "Beer Page") and extract_url of the cell is the URL;
\* for "N/A" the cell is "N/A" and extract_url leaves it; extract_url
\* leaves every cell that does not start with =HYPERLINK( as it is.
C30_LinkRoundTrip ==
    /\ ret.op = "link" =>
          /\ (ret.url # NACell /\ Positions(ret.url, {Quote}) = {}) =>
                /\ ret.cell = <<HyperlinkOpen, Quote>> \o ret.url
                                 \o <<Quote, ", ", Quote, "Beer Page", Quote, ")">>
                /\ ret.extracted = ret.url
          /\ ret.url = NACell => (ret.cell = NACell /\ ret.extracted = NACell)
    /\ ret.op = "extract_url" =>
          ((ret.cell = <<>> \/ ret.cell[1] # HyperlinkOpen) => ret.result = ret.cell)

C30_Witness ==
    /\ ret.op = "link"
    /\ ret.url = <<"a", "N/A", "a">>
    /\ Len(ret.cell) = 11
    /\ ret.extracted = ret.url

====
